---- MODULE Spec2Model ----
(***************************************************************************)
(* A model of abliterator.ModelAbliterator: the weight-surgery state (the  *)
(* model parameters, the modification log, the checkpoint history, the     *)
(* modification scope, the blacklist) and the token generation loop.       *)
(*                                                                         *)
(* Tensors have identity.  A tensor that lives in the model or is reachable *)
(* from it is a cell of `heap`; `state_dict()` hands out tensors that share *)
(* the cell of the parameter, `x.to(dev)` hands out x itself when x already *)
(* is on dev and a private copy otherwise, `W.data = t` rebinds a parameter *)
(* to another cell and `load_state_dict` copies values into the cells the   *)
(* parameters are bound to.  Python dicts have identity too: the two inner  *)
(* dicts of the modification log are cells of `dicts`.                      *)
(***************************************************************************)
EXTENDS Integers, Sequences, FiniteSets, TLC

\* ------------------------------------------------------------------ sizes
n_layers == 2
d_model == 2
n_rows == 2
MaxStore == 9
MaxDicts == 6
MaxCheckpoints == 2
MaxCalls == 3
MaxScopeCalls == 4
BatchSize == 2
MaxTokens == 2
MaxTensorLen == 3
MaxSurgeryCalls == 2
MaxDirCalls == 3
MaxPersistCalls == 4

Layers == 0 .. (n_layers - 1)
LayerArgs == 0 .. n_layers
Kinds == {"W_O", "mlp"}
Params == (Kinds \X Layers) \cup {<<"W_E", 0>>}
Devices == {"cpu", "cuda"}

\* ---------------------------------------------------------------- tensors
\* the weights the model is loaded with
InitialW_O == [l \in Layers |->
    [r \in 1 .. n_rows |-> [c \in 1 .. d_model |-> 1 + ((r + c + l) % 2)]]]
InitialW_out == [l \in Layers |->
    [r \in 1 .. n_rows |-> [c \in 1 .. d_model |-> (r * c + l) % 3]]]
InitialW_E == [r \in 1 .. n_rows |-> [c \in 1 .. d_model |-> 1]]

InitialValue(p) ==
    IF p[1] = "W_O" THEN InitialW_O[p[2]]
    ELSE IF p[1] = "mlp" THEN InitialW_out[p[2]]
    ELSE InitialW_E

\* the replacement matrices and the (unit) directions the calls are tried with
Replacements == { [r \in 1 .. n_rows |-> [c \in 1 .. d_model |-> IF r = c THEN 3 ELSE 0]] }
Directions == { [c \in 1 .. d_model |-> IF c = 1 THEN 1 ELSE 0] }

FreeCell == <<>>
NoAttr == [absent |-> TRUE]

\* A tensor handle: a cell of the heap (id > 0), or a private copy nobody
\* else can reach (id = 0), which is its value.
CellRef(c) == [id |-> c, val |-> <<>>]
Copy(v) == [id |-> 0, val |-> v]
Deref(h, t) == IF t.id = 0 THEN t.val ELSE h[t.id]

\* tensor.to(dst) of a tensor that lives on device `src`
To(h, t, src, dst) == IF src = dst THEN t ELSE Copy(Deref(h, t))

Dot(row, direction) ==
    LET RECURSIVE Sum(_)
        Sum(i) == IF i = 0 THEN 0 ELSE row[i] * direction[i] + Sum(i - 1)
    IN Sum(d_model)

calculate_scaled_projection(components, direction) ==
    [r \in 1 .. Len(components) |->
        [c \in 1 .. d_model |-> Dot(components[r], direction) * direction[c]]]

MatSub(a, b) ==
    [r \in 1 .. Len(a) |-> [c \in 1 .. d_model |-> a[r][c] - b[r][c]]]

calculate_ortho_complement(components, direction) ==
    MatSub(components, calculate_scaled_projection(components, direction))

\* ------------------------------------------------------------------ state
VARIABLES
    device,            \* the device the model was loaded on
    heap,              \* cell -> matrix value, FreeCell when unused
    param,             \* parameter -> the cell its .data is bound to
    original_state,    \* parameter -> tensor handle (self.original_state)
    current_state,     \* NoAttr, or parameter -> cell (self.current_state)
    current_layers,    \* NoAttr, or the outer dict saved by __enter__
    was_modified,      \* NoAttr, or the dirty flag saved by __enter__
    dicts,             \* inner dict cell -> layer -> list of pairs
    modified_layers,   \* the outer dict: kind -> inner dict cell
    checkpoints,       \* list of outer dicts
    modified,          \* the dirty flag
    _blacklisted,      \* set of layers
    fwd_hooks,         \* list of registered forward hooks
    last,              \* the call that produced this state
    enter_params,      \* history: parameter values when the open scope was entered
    enter_log,         \* history: log contents when the open scope was entered
    calls_left,        \* the number of calls the run may still make
    harmful,           \* the harmful activation cache: site key -> rows
    harmless,          \* the harmless activation cache: site key -> rows
    file,              \* NoAttr, or the bundle save_activations wrote
    ret,               \* the arguments and the outcome of the last call
    gen                \* the generation loop (generate_logits)

objvars == <<device, heap, param, original_state, current_state,
             current_layers, was_modified, dicts, modified_layers,
             checkpoints, modified, _blacklisted, fwd_hooks, last,
             enter_params, enter_log, calls_left, harmful, harmless, file, ret>>
vars == <<objvars, gen>>

\* ------------------------------------------------- Python dicts with keys
StrKey(k) == <<"str", k>>
IntKey(l) == <<"int", l>>
dict_get(d, key, default) == IF key \in DOMAIN d THEN d[key] ELSE default

\* a cache without sites: {}
EmptyCache == [k \in {} |-> <<>>]

\* the value None where an outer dict or a list is expected
NoneValue == (<<"none", "None">> :> 0)

EmptyItems == [l \in Layers |-> <<>>]
UnusedDict == [used |-> FALSE, items |-> EmptyItems]
EmptyDict == [used |-> TRUE, items |-> EmptyItems]

\* the smallest unused cell, 0 when the store is exhausted
Alloc(h) ==
    IF \E c \in DOMAIN h : h[c] = FreeCell
    THEN CHOOSE c \in DOMAIN h : h[c] = FreeCell /\ \A b \in DOMAIN h : h[b] = FreeCell => c <= b
    ELSE 0

AllocDict(ds) ==
    IF \E i \in DOMAIN ds : ~ds[i].used
    THEN CHOOSE i \in DOMAIN ds : ~ds[i].used /\ \A j \in DOMAIN ds : ~ds[j].used => i <= j
    ELSE 0

\* The object as one value, so that a method can call another.
Self == [heap |-> heap, param |-> param, dicts |-> dicts,
         modified_layers |-> modified_layers, checkpoints |-> checkpoints,
         current_state |-> current_state, current_layers |-> current_layers,
         was_modified |-> was_modified, modified |-> modified,
         fwd_hooks |-> fwd_hooks, harmful |-> harmful, harmless |-> harmless,
         err |-> FALSE, oom |-> FALSE]

\* model.state_dict(): tensors sharing the cells of the parameters
state_dict(s) == [p \in Params |-> CellRef(s.param[p])]

\* model.load_state_dict(sd): copy_ into the cell of every parameter, one
\* parameter after the other
load_state_dict(s, sd) ==
    LET RECURSIVE Load(_, _)
        Load(h, ps) ==
            IF ps = {} THEN h
            ELSE LET p == CHOOSE q \in ps : TRUE
                 IN Load([h EXCEPT ![s.param[p]] = Deref(h, sd[p])], ps \ {p})
    IN [s EXCEPT !.heap = Load(s.heap, Params)]

\* __enter__ without the `hasattr` test
enter_unguarded(s) ==
    [s EXCEPT !.current_state = state_dict(s),
              !.current_layers = s.modified_layers,
              !.was_modified = s.modified]

\* ModelAbliterator.__enter__; None has no copy(), and current_state is
\* assigned before the copy is asked for
enter(s) ==
    IF s.current_state # NoAttr
    THEN [s EXCEPT !.err = TRUE]
    ELSE IF s.modified_layers = NoneValue
    THEN [s EXCEPT !.current_state = state_dict(s), !.err = TRUE]
    ELSE [s EXCEPT !.current_state = state_dict(s),
                   !.current_layers = s.modified_layers,
                   !.was_modified = s.modified]

\* __exit__ that forgets to load the saved weights
exit_keeps_weights(s) ==
    [s EXCEPT !.current_state = NoAttr,
              !.modified_layers = s.current_layers,
              !.current_layers = NoAttr,
              !.modified = s.was_modified,
              !.was_modified = NoAttr]

\* ModelAbliterator.__exit__
exit(s) ==
    LET s1 == load_state_dict(s, s.current_state)
    IN [s1 EXCEPT !.current_state = NoAttr,
                  !.modified_layers = s.current_layers,
                  !.current_layers = NoAttr,
                  !.modified = s.was_modified,
                  !.was_modified = NoAttr]

\* reset_state that keeps the log
reset_state_keeps_log(s) ==
    load_state_dict([s EXCEPT !.modified = FALSE], original_state)

\* reset_state that also empties the checkpoint history
reset_state_drops_checkpoints(s) ==
    LET a == AllocDict(s.dicts)
        ds1 == IF a = 0 THEN s.dicts ELSE [s.dicts EXCEPT ![a] = EmptyDict]
        b == AllocDict(ds1)
        ds2 == IF b = 0 THEN ds1 ELSE [ds1 EXCEPT ![b] = EmptyDict]
        s1 == [s EXCEPT !.modified = FALSE, !.checkpoints = <<>>]
    IN IF a = 0 \/ b = 0
       THEN [s1 EXCEPT !.oom = TRUE]
       ELSE load_state_dict(
                [s1 EXCEPT !.dicts = ds2,
                           !.modified_layers = (StrKey("mlp") :> a) @@ (StrKey("W_O") :> b)],
                original_state)

\* ModelAbliterator.reset_state
reset_state(s) ==
    LET a == AllocDict(s.dicts)
        ds1 == IF a = 0 THEN s.dicts ELSE [s.dicts EXCEPT ![a] = EmptyDict]
        b == AllocDict(ds1)
        ds2 == IF b = 0 THEN ds1 ELSE [ds1 EXCEPT ![b] = EmptyDict]
        s1 == [s EXCEPT !.modified = FALSE]
    IN IF a = 0 \/ b = 0
       THEN [s1 EXCEPT !.oom = TRUE]
       ELSE load_state_dict(
                [s1 EXCEPT !.dicts = ds2,
                           !.modified_layers = (StrKey("mlp") :> a) @@ (StrKey("W_O") :> b)],
                original_state)

\* ModelAbliterator.checkpoint: dict.copy() is a new outer dict holding the
\* same two inner dicts; None has no copy()
checkpoint(s) ==
    IF s.modified_layers = NoneValue
    THEN [s EXCEPT !.err = TRUE]
    ELSE [s EXCEPT !.checkpoints = Append(s.checkpoints, s.modified_layers)]

\* The write of layer_attn / layer_mlp.  `replacement` is a matrix value
\* living on device rdev, or None.  The matrix is assigned before the log
\* entry is built, and a log that is None has no get().
None == <<>>
\* `layers=None`, told apart from the empty list
NoLayers == <<-1>>

\* the write without the blacklist test
layer_write_any_layer(s, kind, layer, replacement, rdev) ==
    IF replacement = None
    THEN IF layer \in Layers THEN s ELSE [s EXCEPT !.err = TRUE]
    ELSE LET s1 == [s EXCEPT !.modified = TRUE]
             c == Alloc(s1.heap)
         IN IF layer \notin Layers THEN [s1 EXCEPT !.err = TRUE]
            ELSE IF c = 0 THEN [s1 EXCEPT !.oom = TRUE]
            ELSE IF s1.modified_layers = NoneValue
            THEN [s1 EXCEPT !.heap[c] = replacement,
                            !.param[<<kind, layer>>] = c,
                            !.err = TRUE]
            ELSE LET h2 == [s1.heap EXCEPT ![c] = replacement]
                     data == CellRef(c)
                     given == IF rdev = device THEN data ELSE Copy(replacement)
                     pair == <<To(h2, data, device, "cpu"), To(h2, given, rdev, "cpu")>>
                     inner == s1.modified_layers[StrKey(kind)]
                     logged == dict_get(s1.modified_layers, IntKey(layer), <<>>) \o <<pair>>
                 IN [s1 EXCEPT !.heap = h2,
                               !.param[<<kind, layer>>] = c,
                               !.dicts[inner].items[layer] = logged]

layer_write(s, kind, layer, replacement, rdev) ==
    IF replacement = None \/ layer \in _blacklisted
    THEN IF layer \in Layers THEN s ELSE [s EXCEPT !.err = TRUE]
    ELSE LET s1 == [s EXCEPT !.modified = TRUE]
             c == Alloc(s1.heap)
         IN IF layer \notin Layers THEN [s1 EXCEPT !.err = TRUE]
            ELSE IF c = 0 THEN [s1 EXCEPT !.oom = TRUE]
            ELSE IF s1.modified_layers = NoneValue
            THEN [s1 EXCEPT !.heap[c] = replacement,
                            !.param[<<kind, layer>>] = c,
                            !.err = TRUE]
            ELSE LET h2 == [s1.heap EXCEPT ![c] = replacement]
                     data == CellRef(c)
                     given == IF rdev = device THEN data ELSE Copy(replacement)
                     pair == <<To(h2, data, device, "cpu"), To(h2, given, rdev, "cpu")>>
                     inner == s1.modified_layers[StrKey(kind)]
                     logged == dict_get(s1.modified_layers, IntKey(layer), <<>>) \o <<pair>>
                 IN [s1 EXCEPT !.heap = h2,
                               !.param[<<kind, layer>>] = c,
                               !.dicts[inner].items[layer] = logged]

layer_attn(s, layer, replacement, rdev) == layer_write(s, "W_O", layer, replacement, rdev)
layer_mlp(s, layer, replacement, rdev) == layer_write(s, "mlp", layer, replacement, rdev)

\* the matrix layer_attn(layer) / layer_mlp(layer) returns
Matrix(s, kind, layer) == s.heap[s.param[<<kind, layer>>]]

\* ModelAbliterator.get_whitelisted_layers, as a list in increasing order
get_whitelisted_layers(bl) ==
    LET RECURSIVE Upto(_)
        Upto(l) == IF l < 0 THEN <<>>
                   ELSE Upto(l - 1) \o (IF l \in bl THEN <<>> ELSE <<l>>)
    IN Upto(n_layers - 1)

activation_layers == <<"resid_pre", "resid_post", "mlp_out", "attn_out">>
get_act_name(name, layer) == <<"blocks", layer, name>>

\* ModelAbliterator.get_all_act_names
get_all_act_names(bl) ==
    LET wl == get_whitelisted_layers(bl)
        n == Len(activation_layers)
    IN [i \in 1 .. (Len(wl) * n) |->
            <<wl[((i - 1) \div n) + 1],
              get_act_name(activation_layers[((i - 1) % n) + 1], wl[((i - 1) \div n) + 1])>>]

\* list(range(1, n_layers)), the default of `layers`
DefaultLayers == [i \in 1 .. (n_layers - 1) |-> i]

\* the (direction, layer, kind) visits of the three nested loops, in order
SurgerySteps(refusal_dirs, W_O, mlp, layers) ==
    LET ks == (IF W_O THEN <<"W_O">> ELSE <<>>) \o (IF mlp THEN <<"mlp">> ELSE <<>>)
        K == Len(ks)
        L == Len(layers)
    IN [i \in 1 .. (Len(refusal_dirs) * L * K) |->
            [dir |-> refusal_dirs[((i - 1) \div (L * K)) + 1],
             layer |-> layers[(((i - 1) \div K) % L) + 1],
             kind |-> ks[((i - 1) % K) + 1]]]

\* apply_refusal_dirs that projects the matrix the call started with
apply_refusal_dirs_independent(s, refusal_dirs, W_O, mlp, layers) ==
    LET steps == SurgerySteps(refusal_dirs, W_O, mlp,
                              IF layers = NoLayers THEN DefaultLayers ELSE layers)
        RECURSIVE Run(_, _)
        Run(t, i) ==
            IF i > Len(steps) \/ t.err \/ t.oom THEN t
            ELSE LET st == steps[i]
                     rd == layer_write(t, st.kind, st.layer, None, device)
                 IN IF rd.err THEN rd
                    ELSE LET matrix == Matrix(s, st.kind, st.layer)
                             proj == calculate_scaled_projection(matrix, st.dir)
                         IN Run(layer_write(t, st.kind, st.layer,
                                            MatSub(matrix, proj), device), i + 1)
    IN Run(s, 1)

\* ModelAbliterator.apply_refusal_dirs
apply_refusal_dirs(s, refusal_dirs, W_O, mlp, layers) ==
    LET steps == SurgerySteps(refusal_dirs, W_O, mlp,
                              IF layers = NoLayers THEN DefaultLayers ELSE layers)
        RECURSIVE Run(_, _)
        Run(t, i) ==
            IF i > Len(steps) \/ t.err \/ t.oom THEN t
            ELSE LET st == steps[i]
                     rd == layer_write(t, st.kind, st.layer, None, device)
                 IN IF rd.err THEN rd
                    ELSE LET matrix == Matrix(t, st.kind, st.layer)
                             proj == calculate_scaled_projection(matrix, st.dir)
                         IN Run(layer_write(t, st.kind, st.layer,
                                            MatSub(matrix, proj), device), i + 1)
    IN Run(s, 1)

\* The keys of self.harmful.
harmful_keys == DOMAIN harmful
ObjKey == <<"obj", "ModelAbliterator">>

\* calculate_mean_dirs(key) indexes the caches by key; a missing key raises
calculate_mean_dirs_raises(key) == key \notin harmful_keys

\* ModelAbliterator.get_avg_projections calls
\* self.calculate_mean_dirs(self, key): the key that reaches the lookup is
\* the object itself.
get_avg_projections_raises(key) == calculate_mean_dirs_raises(ObjKey)

\* ModelAbliterator.induce_refusal_dir: the first visit reads the matrix,
\* computes the projection and asks for the average projections.
induce_refusal_dir(s, refusal_dir, W_O, mlp, layers) ==
    LET steps == SurgerySteps(<<refusal_dir>>, W_O, mlp,
                              IF layers = NoLayers THEN DefaultLayers ELSE layers)
        RECURSIVE Run(_, _)
        Run(t, i) ==
            IF i > Len(steps) \/ t.err \/ t.oom THEN t
            ELSE LET st == steps[i]
                     rd == layer_write(t, st.kind, st.layer, None, device)
                 IN IF rd.err THEN rd
                    ELSE IF get_avg_projections_raises(
                                get_act_name(activation_layers[1], st.layer))
                         THEN [t EXCEPT !.err = TRUE]
                    ELSE LET matrix == Matrix(t, st.kind, st.layer)
                             proj == calculate_scaled_projection(matrix, st.dir)
                         IN Run(layer_write(t, st.kind, st.layer,
                                            MatSub(matrix, proj), device), i + 1)
    IN Run(s, 1)

\* ModelAbliterator.measure_scores: forward passes under model.hooks(...);
\* it changes nothing of the object and may raise (fails).
measure_scores(s, fails) == IF fails THEN [s EXCEPT !.err = TRUE] ELSE s

\* ModelAbliterator.test_dir
test_dir(s, refusal_dir, use_hooks, layers, fails) ==
    LET before_hooks == s.fwd_hooks
        ls == IF layers = NoLayers THEN get_whitelisted_layers(_blacklisted) ELSE layers
        names == get_all_act_names(_blacklisted)
        body ==
            IF use_hooks
            THEN measure_scores(
                     [s EXCEPT !.fwd_hooks = before_hooks \o
                          [i \in 1 .. Len(names) |-> <<names[i][2], refusal_dir>>]],
                     fails)
            ELSE LET e == enter(s)
                 IN IF e.err THEN e
                    ELSE LET a == apply_refusal_dirs(e, <<refusal_dir>>, TRUE, TRUE, ls)
                             m == IF a.err \/ a.oom THEN a ELSE measure_scores(a, fails)
                         IN exit(m)
    IN [body EXCEPT !.fwd_hooks = before_hooks]

\* ------------------------------------------------------------ observation
\* the value of every parameter
ParamValues(h, pm) == [p \in Params |-> h[pm[p]]]

\* the contents of a log (an outer dict), tensors by value
LogContents(h, ds, outer) ==
    [k \in Kinds |-> [l \in Layers |->
        [j \in 1 .. Len(ds[outer[StrKey(k)]].items[l]) |->
            <<Deref(h, ds[outer[StrKey(k)]].items[l][j][1]),
              Deref(h, ds[outer[StrKey(k)]].items[l][j][2])>>]]]

EmptyLog == [k \in Kinds |-> [l \in Layers |-> <<>>]]

InScope == current_state # NoAttr

\* -------------------------------------------------------------- the calls
Call(op, err, layers, flag) == [op |-> op, err |-> err, use_hooks |-> flag]

GenIdle == [pc |-> "idle"]

\* the first cell of each parameter
ParamCell(p) ==
    IF p[1] = "W_O" THEN p[2] + 1
    ELSE IF p[1] = "mlp" THEN n_layers + p[2] + 1
    ELSE 2 * n_layers + 1

\* ModelAbliterator.__init__ without cache_fname
InitObject ==
    /\ device \in Devices
    /\ heap = [c \in 1 .. MaxStore |->
                  IF \E p \in Params : ParamCell(p) = c
                  THEN InitialValue(CHOOSE p \in Params : ParamCell(p) = c)
                  ELSE FreeCell]
    /\ param = [p \in Params |-> ParamCell(p)]
    /\ original_state = [p \in Params |->
                            To(heap, CellRef(ParamCell(p)), device, "cpu")]
    /\ dicts = [i \in 1 .. MaxDicts |-> IF i <= 2 THEN EmptyDict ELSE UnusedDict]
    /\ modified_layers = (StrKey("mlp") :> 1) @@ (StrKey("W_O") :> 2)
    /\ checkpoints = <<>>
    /\ current_state = NoAttr
    /\ current_layers = NoAttr
    /\ was_modified = NoAttr
    /\ fwd_hooks = <<>>
    /\ modified = FALSE
    /\ _blacklisted = {}
    /\ last = Call("__init__", FALSE, {}, FALSE)
    /\ enter_params = NoAttr
    /\ enter_log = NoAttr
    /\ harmful = EmptyCache
    /\ harmless = EmptyCache
    /\ file = NoAttr

Init ==
    /\ InitObject
    /\ calls_left = MaxCalls
    /\ ret = NoAttr
    /\ gen = GenIdle

\* the object after a call: r is the result, within the store
Becomes(r) ==
    /\ ~r.oom
    /\ calls_left > 0
    /\ calls_left' = calls_left - 1
    /\ LET c == r
       IN /\ heap' = c.heap
          /\ param' = c.param
          /\ dicts' = c.dicts
          /\ modified_layers' = c.modified_layers
          /\ checkpoints' = c.checkpoints
          /\ current_state' = c.current_state
          /\ current_layers' = c.current_layers
          /\ was_modified' = c.was_modified
          /\ modified' = c.modified
          /\ fwd_hooks' = c.fwd_hooks
          /\ harmful' = c.harmful
          /\ harmless' = c.harmless
    /\ UNCHANGED <<device, original_state, file, gen>>

Enter ==
    LET r == enter(Self)
    IN /\ Becomes(r)
       /\ last' = Call("__enter__", r.err, {}, FALSE)
       /\ IF r.err
          THEN UNCHANGED <<enter_params, enter_log>>
          ELSE /\ enter_params' = ParamValues(heap, param)
               /\ enter_log' = LogContents(heap, dicts, modified_layers)
       /\ UNCHANGED <<_blacklisted, ret>>

\* the end of a `with` block, normal (exc = FALSE) or by exception
Exit(exc) ==
    /\ InScope
    /\ Becomes(exit(Self))
    /\ last' = Call("__exit__", FALSE, {}, FALSE)
    /\ enter_params' = NoAttr
    /\ enter_log' = NoAttr
    /\ UNCHANGED <<_blacklisted, ret>>

ResetState ==
    /\ Becomes(reset_state(Self))
    /\ last' = Call("reset_state", FALSE, {}, FALSE)
    /\ UNCHANGED <<_blacklisted, enter_params, enter_log, ret>>

Checkpoint ==
    /\ Len(checkpoints) < MaxCheckpoints
    /\ Becomes(checkpoint(Self))
    /\ last' = Call("checkpoint", FALSE, {}, FALSE)
    /\ UNCHANGED <<_blacklisted, enter_params, enter_log, ret>>

\* ModelAbliterator.blacklist_layer, with one layer or a list of layers
BlacklistLayer(ls) ==
    /\ calls_left > 0
    /\ calls_left' = calls_left - 1
    /\ _blacklisted' = _blacklisted \cup ls
    /\ last' = Call("blacklist_layer", FALSE, ls, FALSE)
    /\ UNCHANGED <<device, heap, param, original_state, current_state,
                   current_layers, was_modified, dicts, modified_layers,
                   checkpoints, modified, fwd_hooks, enter_params, enter_log,
                   harmful, harmless, file, ret, gen>>

\* ModelAbliterator.whitelist_layer, with one layer or a list of layers
WhitelistLayer(ls) ==
    /\ calls_left > 0
    /\ calls_left' = calls_left - 1
    /\ _blacklisted' = _blacklisted \ ls
    /\ last' = Call("whitelist_layer", FALSE, ls, FALSE)
    /\ UNCHANGED <<device, heap, param, original_state, current_state,
                   current_layers, was_modified, dicts, modified_layers,
                   checkpoints, modified, fwd_hooks, enter_params, enter_log,
                   harmful, harmless, file, ret, gen>>

LayerAttn(layer, replacement, rdev) ==
    LET r == layer_attn(Self, layer, replacement, rdev)
    IN /\ Becomes(r)
       /\ last' = Call("layer_attn", r.err, IF replacement = None THEN {} ELSE {layer}, FALSE)
       /\ UNCHANGED <<_blacklisted, enter_params, enter_log, ret>>

LayerMlp(layer, replacement, rdev) ==
    LET r == layer_mlp(Self, layer, replacement, rdev)
    IN /\ Becomes(r)
       /\ last' = Call("layer_mlp", r.err, IF replacement = None THEN {} ELSE {layer}, FALSE)
       /\ UNCHANGED <<_blacklisted, enter_params, enter_log, ret>>

\* the layers a surgery call attempts to write
Targets(W_O, mlp, layers) ==
    IF ~W_O /\ ~mlp THEN {}
    ELSE LET ls == IF layers = NoLayers THEN DefaultLayers ELSE layers
         IN {ls[i] : i \in 1 .. Len(ls)}

ApplyRefusalDirs(refusal_dirs, W_O, mlp, layers) ==
    LET r == apply_refusal_dirs(Self, refusal_dirs, W_O, mlp, layers)
    IN /\ Becomes(r)
       /\ last' = Call("apply_refusal_dirs", r.err,
                       IF refusal_dirs = <<>> THEN {} ELSE Targets(W_O, mlp, layers), FALSE)
       /\ UNCHANGED <<_blacklisted, enter_params, enter_log, ret>>

InduceRefusalDir(refusal_dir, W_O, mlp, layers) ==
    LET r == induce_refusal_dir(Self, refusal_dir, W_O, mlp, layers)
    IN /\ Becomes(r)
       /\ last' = Call("induce_refusal_dir", r.err, Targets(W_O, mlp, layers), FALSE)
       /\ UNCHANGED <<_blacklisted, enter_params, enter_log, ret>>

TestDir(refusal_dir, use_hooks, layers, fails) ==
    LET r == test_dir(Self, refusal_dir, use_hooks, layers, fails)
    IN /\ Becomes(r)
       /\ last' = Call("test_dir", r.err,
                       IF use_hooks THEN {}
                       ELSE IF layers = NoLayers
                            THEN {l \in Layers : l \notin _blacklisted}
                            ELSE {layers[i] : i \in 1 .. Len(layers)},
                       use_hooks)
       /\ UNCHANGED <<_blacklisted, enter_params, enter_log, ret>>

\* the arguments the calls are tried with
LayerLists == {<<0, 1>>, <<1, n_layers>>}
LayerSets == {{l} : l \in Layers}
DirLists == {<<>>} \cup {<<d>> : d \in Directions}

Next ==
    \/ Enter
    \/ \E exc \in BOOLEAN : Exit(exc)
    \/ ResetState
    \/ Checkpoint
    \/ \E ls \in LayerSets : BlacklistLayer(ls)
    \/ \E ls \in LayerSets : WhitelistLayer(ls)
    \/ \E l \in LayerArgs, m \in Replacements, rdev \in Devices :
           LayerAttn(l, m, rdev)
    \/ \E l \in LayerArgs, m \in Replacements, rdev \in Devices :
           LayerMlp(l, m, rdev)
    \/ \E ds \in DirLists, W_O \in BOOLEAN, mlp \in BOOLEAN,
          ls \in LayerLists \cup {NoLayers} :
           ApplyRefusalDirs(ds, W_O, mlp, ls)
    \/ \E d \in Directions, W_O \in BOOLEAN, mlp \in BOOLEAN,
          ls \in LayerLists \cup {NoLayers} :
           InduceRefusalDir(d, W_O, mlp, ls)
    \/ \E d \in Directions, use_hooks \in BOOLEAN,
          ls \in LayerLists \cup {NoLayers}, fails \in BOOLEAN :
           TestDir(d, use_hooks, ls, fails)

Spec == Init /\ [][Next]_vars

\* The calls made around and inside a modification scope, in longer runs.
InitScope ==
    /\ InitObject
    /\ calls_left = MaxScopeCalls
    /\ ret = NoAttr
    /\ gen = GenIdle

NextScope ==
    \/ Enter
    \/ \E exc \in BOOLEAN : Exit(exc)
    \/ ResetState
    \/ \E l \in LayerArgs, m \in Replacements, rdev \in Devices :
           LayerAttn(l, m, rdev)
    \/ \E l \in LayerArgs, m \in Replacements, rdev \in Devices :
           LayerMlp(l, m, rdev)
    \/ \E ds \in DirLists, W_O \in BOOLEAN, mlp \in BOOLEAN,
          ls \in LayerLists \cup {NoLayers} :
           ApplyRefusalDirs(ds, W_O, mlp, ls)

SpecScope == InitScope /\ [][NextScope]_vars

\* ------------------------------------------------ generate_logits, stepwise
Vocab == {0, 1, 2}
EosIds == {0, 2}
NegativeSets == {{1}, {1, 2}}

\* the refusal test taken per batch: every sequence emitted a negative token
refusal_seen_in_all(next_tokens, negative_toks) ==
    \A j \in 1 .. Len(next_tokens) : next_tokens[j] \in negative_toks

\* any(negative_tok in next_tokens for negative_tok in self.negative_toks)
refusal_seen(next_tokens, negative_toks) ==
    \E t \in negative_toks : \E j \in 1 .. Len(next_tokens) : next_tokens[j] = t

\* [i for i in range(toks.shape[0]) if all_toks[i][-1] != eos_token_id]
still_generating(all_toks, eos_token_id) ==
    LET RECURSIVE Upto(_)
        Upto(b) == IF b = 0 THEN <<>>
                   ELSE Upto(b - 1) \o
                        (IF all_toks[b][Len(all_toks[b])] # eos_token_id THEN <<b>> ELSE <<>>)
    IN Upto(Len(all_toks))

\* The state at the top of the loop: all_toks holds the generated columns
\* only (zeros), every sequence is generating.
GenStart(drop_refusals, stop_at_eos, max_tokens_generated, eos_token_id, negative_toks) ==
    [pc |-> "loop",
     drop_refusals |-> drop_refusals,
     stop_at_eos |-> stop_at_eos,
     max_tokens_generated |-> max_tokens_generated,
     eos_token_id |-> eos_token_id,
     negative_toks |-> negative_toks,
     all_toks |-> [b \in 1 .. BatchSize |-> [c \in 1 .. max_tokens_generated |-> 0]],
     generating |-> [b \in 1 .. BatchSize |-> b],
     i |-> 0,
     passes |-> <<>>]

InitGen ==
    /\ InitObject
    /\ device = "cpu"
    /\ calls_left = 0
    /\ ret = NoAttr
    /\ \E dr \in BOOLEAN, se \in BOOLEAN, mx \in 1 .. MaxTokens,
          eos \in EosIds, neg \in NegativeSets :
           gen = GenStart(dr, se, mx, eos, neg)

\* one iteration of the loop: the forward pass of the sequences in
\* `generating`, whose argmax tokens are next_tokens
GenStep(next_tokens) ==
    /\ gen.pc = "loop"
    /\ Len(next_tokens) = Len(gen.generating)
    /\ LET col == gen.i + 1
           written == [b \in 1 .. BatchSize |->
                          IF \E j \in 1 .. Len(gen.generating) : gen.generating[j] = b
                          THEN [gen.all_toks[b] EXCEPT ![col] =
                                   next_tokens[CHOOSE j \in 1 .. Len(gen.generating) :
                                                   gen.generating[j] = b]]
                          ELSE gen.all_toks[b]]
           dropped == gen.drop_refusals /\ refusal_seen(next_tokens, gen.negative_toks)
           remaining == IF gen.stop_at_eos /\ ~dropped /\ Len(gen.generating) > 0
                        THEN still_generating(written, gen.eos_token_id)
                        ELSE gen.generating
           finished == gen.stop_at_eos /\ ~dropped /\ Len(remaining) = 0
       IN gen' = [gen EXCEPT
                     !.passes = Append(gen.passes, gen.generating),
                     !.all_toks = written,
                     !.generating = remaining,
                     !.i = IF dropped \/ finished THEN gen.i ELSE gen.i + 1,
                     !.pc = IF dropped \/ finished \/ gen.i + 1 = gen.max_tokens_generated
                            THEN "done" ELSE "loop"]
    /\ UNCHANGED objvars

NextGen ==
    \E n \in 0 .. BatchSize : \E next_tokens \in [1 .. n -> Vocab] : GenStep(next_tokens)

SpecGen == InitGen /\ [][NextGen]_vars

\* ------------------------------------- apply_refusal_dirs, its arguments kept
UnitDirections == {[c \in 1 .. d_model |-> IF c = k THEN 1 ELSE 0] : k \in 1 .. d_model}
DirSequences == {<<>>} \cup {<<d>> : d \in UnitDirections}
                    \cup {<<d, e>> : d \in UnitDirections, e \in UnitDirections}
SurgeryLayers == {<<0, 1>>, NoLayers}

InitSurgery ==
    /\ InitObject
    /\ calls_left = MaxSurgeryCalls
    /\ ret = NoAttr
    /\ gen = GenIdle

ApplyDirections(refusal_dirs, W_O, mlp, layers) ==
    LET r == apply_refusal_dirs(Self, refusal_dirs, W_O, mlp, layers)
    IN /\ Becomes(r)
       /\ last' = Call("apply_refusal_dirs", r.err, {}, FALSE)
       /\ ret' = [refusal_dirs |-> refusal_dirs, W_O |-> W_O, mlp |-> mlp,
                  layers |-> IF layers = NoLayers THEN DefaultLayers ELSE layers]
       /\ UNCHANGED <<_blacklisted, enter_params, enter_log>>

NextSurgery ==
    \/ \E ls \in LayerSets : BlacklistLayer(ls)
    \/ \E ds \in DirSequences, W_O \in BOOLEAN, mlp \in BOOLEAN, ls \in SurgeryLayers :
           ApplyDirections(ds, W_O, mlp, ls)

SpecSurgery == InitSurgery /\ [][NextSurgery]_vars

\* ------------------------------------------------ the activation caches
\* the training prompts prepare_dataset left, by number
harmful_inst_train == <<1, 2, 3>>
harmless_inst_train == <<4, 5>>

\* the sites a forward pass caches, in the order their hooks fire
CacheKeyOrder ==
    [i \in 1 .. (n_layers * 4) |->
        get_act_name(<<"resid_pre", "attn_out", "mlp_out", "resid_post">>[((i - 1) % 4) + 1],
                     (i - 1) \div 4)]
SiteKeys == {CacheKeyOrder[i] : i \in 1 .. Len(CacheKeyOrder)}

\* The forward pass is the external model: the pooled activation of prompt
\* p at a site, for the two behaviours the model is tried with.  With
\* behaviour 2 the attention output does not depend on the prompt.
Behaviours == {1, 2}
SiteNumber(key) == CHOOSE i \in 1 .. Len(CacheKeyOrder) : CacheKeyOrder[i] = key
Activation(t, p, key) ==
    IF t = 2 /\ key[3] = "attn_out"
    THEN <<1, 1>>
    ELSE <<(p * (key[2] + 1) + SiteNumber(key)) % 3, (p + SiteNumber(key)) % 2>>

Min(a, b) == IF a < b THEN a ELSE b

\* toks[i:j] of Python, i and j counted from 0
Slice(toks, i, j) == SubSeq(toks, Min(i, Len(toks)) + 1, Min(j, Len(toks)))

\* create_activation_cache that runs the full batches only
create_activation_cache_full_batches(toks, N, batch_size, t) ==
    LET stop == Min(N, Len(toks))
        RECURSIVE Run(_, _, _)
        Run(i, base, passes) ==
            IF i + batch_size > stop THEN [cache |-> base, passes |-> passes]
            ELSE LET b == Slice(toks, i, Min(i + batch_size, Len(toks)))
                     tensor(key) == [j \in 1 .. Len(b) |-> Activation(t, b[j], key)]
                 IN Run(i + batch_size,
                        [key \in SiteKeys |->
                            IF key \notin DOMAIN base THEN tensor(key)
                            ELSE base[key] \o tensor(key)],
                        passes + 1)
    IN Run(0, EmptyCache, 0)

\* ModelAbliterator.create_activation_cache: one forward pass per batch
\* toks[i : min(i + batch_size, len(toks))], i in range(0, min(N, len(toks)),
\* batch_size); the pooled rows of a site are concatenated batch after batch
create_activation_cache(toks, N, batch_size, t) ==
    LET stop == Min(N, Len(toks))
        RECURSIVE Run(_, _, _)
        Run(i, base, passes) ==
            IF i >= stop THEN [cache |-> base, passes |-> passes]
            ELSE LET b == Slice(toks, i, Min(i + batch_size, Len(toks)))
                     tensor(key) == [j \in 1 .. Len(b) |-> Activation(t, b[j], key)]
                 IN Run(i + batch_size,
                        [key \in SiteKeys |->
                            IF key \notin DOMAIN base THEN tensor(key)
                            ELSE base[key] \o tensor(key)],
                        passes + 1)
    IN Run(0, EmptyCache, 0)

\* ModelAbliterator.cache_activations
cache_activations(s, N, batch_size, reset, preserve_harmless, t) ==
    LET harmless_is_set == DOMAIN s.harmless # {}
        preserve == harmless_is_set /\ preserve_harmless
        s1 == IF reset
              THEN [s EXCEPT !.harmful = EmptyCache,
                             !.harmless = IF preserve THEN s.harmless ELSE EmptyCache]
              ELSE s
        toks == Slice(harmful_inst_train, 0, N) \o Slice(harmless_inst_train, 0, N)
        splitpos == Min(N, Len(harmful_inst_train))
        harmful_toks == Slice(toks, 0, splitpos)
        harmless_toks == Slice(toks, splitpos, Len(toks))
        hf == create_activation_cache(harmful_toks, N, batch_size, t)
        hl == create_activation_cache(harmless_toks, N, batch_size, t)
    IN [state |-> [s1 EXCEPT !.harmful = hf.cache,
                             !.harmless = IF preserve THEN s1.harmless ELSE hl.cache],
        passes |-> hf.passes + (IF preserve THEN 0 ELSE hl.passes)]

\* ------------------------------------------------------- the directions
VecSum(v) ==
    LET RECURSIVE Sum(_)
        Sum(i) == IF i = 0 THEN 0 ELSE v[i] + Sum(i - 1)
    IN Sum(Len(v))

\* torch.mean(rows, dim=0) as the column sums over the number of rows
ColumnMean(rows) ==
    [sum |-> [c \in 1 .. d_model |-> VecSum([r \in 1 .. Len(rows) |-> rows[r][c]])],
     count |-> Len(rows)]

\* ModelAbliterator.calculate_mean_dirs
calculate_mean_dirs(s, key) ==
    [harmful_mean |-> ColumnMean(s.harmful[key]),
     harmless_mean |-> ColumnMean(s.harmless[key])]

\* a - b of two means, over the common denominator a.count * b.count
MeanDiff(a, b) == [c \in 1 .. d_model |-> a.sum[c] * b.count - b.sum[c] * a.count]

\* v / v.norm(): component c is vec[c] / sqrt(norm2); with the zero vector
\* every component is 0 / 0, which is nan
Normalized(v) == [vec |-> v, norm2 |-> Dot(v, v)]
IsNan(direction) == direction.norm2 = 0

Raised(s) == [state |-> [s EXCEPT !.err = TRUE], value |-> NoAttr, passes |-> 0]

\* the dict a comprehension over the keys of the harmful cache builds
DirsOfCache(s, invert) ==
    LET keys == SelectSeq(CacheKeyOrder,
                          LAMBDA key : key \in DOMAIN s.harmful /\ key[2] # 0)
    IN [i \in 1 .. Len(keys) |->
           LET v == calculate_mean_dirs(s, keys[i])
           IN <<keys[i],
                Normalized(IF invert THEN MeanDiff(v.harmless_mean, v.harmful_mean)
                           ELSE MeanDiff(v.harmful_mean, v.harmless_mean))>>]

\* refusal_dirs without the test of the cache
refusal_dirs_unchecked(s, invert) ==
    [state |-> s, value |-> DirsOfCache(s, invert), passes |-> 0]

\* ModelAbliterator.refusal_dirs; the dict is the list of its items
refusal_dirs(s, invert) ==
    IF DOMAIN s.harmful = {}
    THEN Raised(s)
    ELSE IF \E key \in DOMAIN s.harmful : key[2] # 0 /\ key \notin DOMAIN s.harmless
    THEN Raised(s)
    ELSE [state |-> s, value |-> DirsOfCache(s, invert), passes |-> 0]

\* d[key] of a dict given as the list of its items
HasKey(items, key) == \E i \in 1 .. Len(items) : items[i][1] = key
Lookup(items, key) == items[CHOOSE i \in 1 .. Len(items) : items[i][1] = key][2]

\* abs(direction.mean()) is |sum of vec| / (d_model * sqrt(norm2)); a < b
\* is false when one of the two is nan
AbsMeanLess(a, b) ==
    /\ ~IsNan(a)
    /\ ~IsNan(b)
    /\ VecSum(a.vec) * VecSum(a.vec) * b.norm2 < VecSum(b.vec) * VecSum(b.vec) * a.norm2

Reverse(q) == [i \in 1 .. Len(q) |-> q[Len(q) + 1 - i]]

\* list.sort of a short list: binary insertion, which uses < only and puts
\* an element behind the elements it is not less than
BinarySort(q, Less(_, _)) ==
    LET RECURSIVE Place(_, _, _, _)
        Place(done, pivot, l, r) ==
            IF l >= r THEN l
            ELSE LET m == l + ((r - l) \div 2)
                 IN IF Less(pivot, done[m + 1]) THEN Place(done, pivot, l, m)
                    ELSE Place(done, pivot, m + 1, r)
        RECURSIVE Sort(_, _)
        Sort(done, start) ==
            IF start > Len(q) THEN done
            ELSE LET at == Place(done, q[start], 0, Len(done))
                 IN Sort(SubSeq(done, 1, at) \o <<q[start]>> \o SubSeq(done, at + 1, Len(done)),
                         start + 1)
    IN Sort(<<>>, 1)

\* sorted(q, reverse=True, key=...): the list is reversed, sorted and
\* reversed again
SortedDescending(q, Less(_, _)) == Reverse(BinarySort(Reverse(q), Less))

\* ModelAbliterator.scored_dirs
scored_dirs(s, invert) ==
    LET refusals == refusal_dirs(s, invert)
        names == get_all_act_names(_blacklisted)
    IN IF refusals.state.err THEN refusals
       ELSE IF \E i \in 1 .. Len(names) : ~HasKey(refusals.value, names[i][2])
       THEN Raised(s)
       ELSE [state |-> s,
             value |-> SortedDescending(
                           [i \in 1 .. Len(names) |->
                               <<names[i][1], Lookup(refusals.value, names[i][2])>>],
                           LAMBDA x, y : AbsMeanLess(x[2], y[2])),
             passes |-> 0]

\* what measure_scores returns: a dict with the keys "negative" and
\* "positive"; the scores are the external model's
measured_scores == (StrKey("negative") :> 1) @@ (StrKey("positive") :> 0)

\* key=lambda x: x[0] of the (score, direction) pairs
ScoreLess(x, y) == x[1] < y[1]

\* ModelAbliterator.find_best_refusal_dir: the dict test_dir returns is
\* indexed with int(positive)
find_best_refusal_dir(s, N, positive, use_hooks, invert, fails) ==
    LET dirs == refusal_dirs(s, invert)
        key == IntKey(IF positive THEN 1 ELSE 0)
        RECURSIVE Run(_, _, _), Scored(_, _, _)
        Scored(tested, i, scores) ==
            IF tested.err \/ tested.oom
            THEN [state |-> tested, value |-> NoAttr, passes |-> i]
            ELSE IF key \notin DOMAIN measured_scores
            THEN [state |-> [tested EXCEPT !.err = TRUE],
                  value |-> NoAttr, passes |-> i]
            ELSE Run(tested, i + 1,
                     Append(scores, <<measured_scores[key], dirs.value[i]>>))
        Run(t, i, scores) ==
            IF i > Len(dirs.value)
            THEN [state |-> t, value |-> BinarySort(scores, ScoreLess), passes |-> i - 1]
            ELSE Scored(test_dir(t, dirs.value[i][2], use_hooks, NoLayers, fails),
                        i, scores)
    IN IF dirs.state.err THEN dirs ELSE Run(s, 1, <<>>)

\* ---------------------------------------------- the calls on the caches
NValues == {1, 4}
BatchSizes == {1, 2}

InitDirs ==
    /\ InitObject
    /\ device = "cpu"
    /\ calls_left = MaxDirCalls
    /\ ret = NoAttr
    /\ gen = GenIdle

CacheActivations(N, batch_size, reset, preserve_harmless, t) ==
    LET r == cache_activations(Self, N, batch_size, reset, preserve_harmless, t)
    IN /\ Becomes(r.state)
       /\ last' = Call("cache_activations", r.state.err, {}, FALSE)
       /\ ret' = [args |-> [N |-> N, batch_size |-> batch_size,
                            preserve_harmless |-> preserve_harmless, t |-> t],
                  value |-> NoAttr, passes |-> r.passes]
       /\ UNCHANGED <<_blacklisted, enter_params, enter_log>>

RefusalDirs(invert) ==
    LET r == refusal_dirs(Self, invert)
    IN /\ Becomes(r.state)
       /\ last' = Call("refusal_dirs", r.state.err, {}, FALSE)
       /\ ret' = [args |-> [invert |-> invert], value |-> r.value, passes |-> r.passes]
       /\ UNCHANGED <<_blacklisted, enter_params, enter_log>>

ScoredDirs(invert) ==
    LET r == scored_dirs(Self, invert)
    IN /\ Becomes(r.state)
       /\ last' = Call("scored_dirs", r.state.err, {}, FALSE)
       /\ ret' = [args |-> [invert |-> invert], value |-> r.value, passes |-> r.passes]
       /\ UNCHANGED <<_blacklisted, enter_params, enter_log>>

FindBestRefusalDir(N, positive, invert, fails) ==
    LET r == find_best_refusal_dir(Self, N, positive, TRUE, invert, fails)
    IN /\ Becomes(r.state)
       /\ last' = Call("find_best_refusal_dir", r.state.err, {}, FALSE)
       /\ ret' = [args |-> [positive |-> positive, invert |-> invert, fails |-> fails],
                  value |-> r.value, passes |-> r.passes]
       /\ UNCHANGED <<_blacklisted, enter_params, enter_log>>

NextDirs ==
    \/ \E N \in NValues, batch_size \in BatchSizes, reset \in BOOLEAN,
          preserve_harmless \in BOOLEAN, t \in Behaviours :
           CacheActivations(N, batch_size, reset, preserve_harmless, t)
    \/ \E invert \in BOOLEAN : RefusalDirs(invert)
    \/ \E invert \in BOOLEAN : ScoredDirs(invert)
    \/ \E positive \in BOOLEAN, invert \in BOOLEAN, fails \in BOOLEAN :
           FindBestRefusalDir(4, positive, invert, fails)
    \/ \E ls \in LayerSets : BlacklistLayer(ls)
    \/ \E l \in Layers, m \in Replacements : LayerAttn(l, m, device)

SpecDirs == InitDirs /\ [][NextDirs]_vars

\* ------------------------------------------------- the persisted bundle
\* an inner dict is falsy when it has no key
LogIsEmpty(s) ==
    \A k \in Kinds : \A l \in Layers : s.dicts[s.modified_layers[StrKey(k)]].items[l] = <<>>

\* torch.save writes tensors by value and keeps which dicts are shared
Pickled(h, ds) ==
    [i \in DOMAIN ds |->
        [used |-> ds[i].used,
         items |-> [l \in Layers |->
             [j \in 1 .. Len(ds[i].items[l]) |->
                 <<Copy(Deref(h, ds[i].items[l][j][1])),
                   Copy(Deref(h, ds[i].items[l][j][2]))>>]]]]

\* ModelAbliterator.save_activations: the list written to fname, or NoAttr
\* when building it raised (None cannot be indexed)
save_activations(s) ==
    IF s.modified_layers = NoneValue
    THEN NoAttr
    ELSE [harmful |-> s.harmful,
          harmless |-> s.harmless,
          modified_layers |-> IF LogIsEmpty(s) THEN NoneValue ELSE s.modified_layers,
          checkpoints |-> [none |-> Len(s.checkpoints) = 0, list |-> s.checkpoints],
          dicts |-> Pickled(s.heap, s.dicts)]

InitPersist ==
    /\ InitObject
    /\ device = "cpu"
    /\ calls_left = MaxPersistCalls
    /\ ret = NoAttr
    /\ gen = GenIdle

SaveActivations ==
    LET written == save_activations(Self)
    IN /\ calls_left > 0
       /\ calls_left' = calls_left - 1
       /\ file' = IF written = NoAttr THEN file ELSE written
       /\ last' = Call("save_activations", written = NoAttr, {}, FALSE)
       /\ UNCHANGED <<device, heap, param, original_state, current_state,
                      current_layers, was_modified, dicts, modified_layers,
                      checkpoints, modified, _blacklisted, fwd_hooks,
                      enter_params, enter_log, harmful, harmless, ret, gen>>

\* ModelAbliterator.__init__ with cache_fname, on a freshly loaded model:
\* checkpoints is `checkpoints or []`, modified_layers is taken as it is
Load ==
    /\ file # NoAttr
    /\ calls_left > 0
    /\ calls_left' = calls_left - 1
    /\ heap' = [c \in 1 .. MaxStore |->
                   IF \E p \in Params : ParamCell(p) = c
                   THEN InitialValue(CHOOSE p \in Params : ParamCell(p) = c)
                   ELSE FreeCell]
    /\ param' = [p \in Params |-> ParamCell(p)]
    /\ original_state' = [p \in Params |->
                             To(heap', CellRef(ParamCell(p)), device, "cpu")]
    /\ harmful' = file.harmful
    /\ harmless' = file.harmless
    /\ dicts' = file.dicts
    /\ modified_layers' = file.modified_layers
    /\ checkpoints' = IF file.checkpoints.none THEN <<>> ELSE file.checkpoints.list
    /\ current_state' = NoAttr
    /\ current_layers' = NoAttr
    /\ was_modified' = NoAttr
    /\ fwd_hooks' = <<>>
    /\ modified' = FALSE
    /\ _blacklisted' = {}
    /\ last' = Call("__init__", FALSE, {}, FALSE)
    /\ enter_params' = NoAttr
    /\ enter_log' = NoAttr
    /\ UNCHANGED <<device, file, ret, gen>>

CacheSome ==
    LET r == cache_activations(Self, 1, 1, TRUE, TRUE, 1)
    IN /\ Becomes(r.state)
       /\ last' = Call("cache_activations", r.state.err, {}, FALSE)
       /\ UNCHANGED <<_blacklisted, enter_params, enter_log, ret>>

NextPersist ==
    \/ \E l \in Layers, m \in Replacements : LayerAttn(l, m, device)
    \/ \E l \in Layers, m \in Replacements : LayerMlp(l, m, device)
    \/ Checkpoint
    \/ CacheSome
    \/ SaveActivations
    \/ Load

SpecPersist == InitPersist /\ [][NextPersist]_vars

\* ------------------------------------------------------- util.measure_fn
\* the keys of avail_measures, in the order of the dict
avail_measures == <<"mean", "median", "max", "stack">>
MeasureNames == {"mean", "median", "max", "stack", "min", "sum", ""}
TensorValues == 0 .. 2
Tensors == UNION {[1 .. n -> TensorValues] : n \in 1 .. MaxTensorLen}

SeqSum(t) ==
    LET RECURSIVE Sum(_)
        Sum(i) == IF i = 0 THEN 0 ELSE t[i] + Sum(i - 1)
    IN Sum(Len(t))

\* torch.mean of a 1-d tensor: the sum over the number of elements
torch_mean(t) == [kind |-> "scalar", num |-> SeqSum(t), den |-> Len(t)]

\* torch.max of a 1-d tensor
torch_max(t) ==
    LET RECURSIVE Max(_)
        Max(i) == IF i = 1 THEN t[1]
                  ELSE IF t[i] > Max(i - 1) THEN t[i] ELSE Max(i - 1)
    IN [kind |-> "scalar", num |-> Max(Len(t)), den |-> 1]

\* torch.median of a 1-d tensor: the lower of the two middle elements,
\* element (n - 1) div 2 (from 0) of the sorted tensor
torch_median(t) ==
    LET Below(v) == Cardinality({i \in 1 .. Len(t) : t[i] < v})
        UpTo(v) == Cardinality({i \in 1 .. Len(t) : t[i] <= v})
        k == (Len(t) - 1) \div 2
    IN [kind |-> "scalar",
        num |-> CHOOSE v \in TensorValues : Below(v) <= k /\ k < UpTo(v),
        den |-> 1]

\* torch.stack of the elements of a 1-d tensor along dimension 0
torch_stack(t) == [kind |-> "tensor", num |-> SeqSum(t), den |-> 1] @@ [vals |-> t]

Returned(v) == [raised |-> "", unknown |-> "", available |-> <<>>, value |-> v]

\* measure_fn that falls back to max for a name it does not know
measure_fn_default(measure, input_tensor) ==
    IF measure = "mean" THEN Returned(torch_mean(input_tensor))
    ELSE IF measure = "median" THEN Returned(torch_median(input_tensor))
    ELSE IF measure = "stack" THEN Returned(torch_stack(input_tensor))
    ELSE Returned(torch_max(input_tensor))

\* util.measure_fn: the lookup in avail_measures raises KeyError for another
\* name, which is turned into NotImplementedError with the message naming
\* the asked measure and joining the keys of avail_measures
measure_fn(measure, input_tensor) ==
    IF \E i \in 1 .. Len(avail_measures) : avail_measures[i] = measure
    THEN IF measure = "mean" THEN Returned(torch_mean(input_tensor))
         ELSE IF measure = "median" THEN Returned(torch_median(input_tensor))
         ELSE IF measure = "max" THEN Returned(torch_max(input_tensor))
         ELSE Returned(torch_stack(input_tensor))
    ELSE [raised |-> "NotImplementedError", unknown |-> measure,
          available |-> avail_measures, value |-> NoAttr]

InitMeasure ==
    /\ InitObject
    /\ device = "cpu"
    /\ calls_left = 0
    /\ gen = GenIdle
    /\ \E measure \in MeasureNames, input_tensor \in Tensors :
           ret = [pc |-> "call", measure |-> measure,
                  input_tensor |-> input_tensor, result |-> NoAttr]

MeasureFn ==
    /\ ret.pc = "call"
    /\ ret' = [ret EXCEPT !.pc = "done",
                          !.result = measure_fn(ret.measure, ret.input_tensor)]
    /\ UNCHANGED <<device, heap, param, original_state, current_state,
                   current_layers, was_modified, dicts, modified_layers,
                   checkpoints, modified, _blacklisted, fwd_hooks, last,
                   enter_params, enter_log, calls_left, harmful, harmless,
                   file, gen>>

NextMeasure == MeasureFn

SpecMeasure == InitMeasure /\ [][NextMeasure]_vars

\* ================================================================ claims
InitialValues == [p \in Params |-> InitialValue(p)]
LiveLog == LogContents(heap, dicts, modified_layers)
SnapshotValues == [p \in Params |-> Deref(heap, current_state[p])]
ScopeEnds == InScope /\ ~InScope'
EditCalls == {"layer_attn", "layer_mlp", "apply_refusal_dirs",
              "induce_refusal_dir", "test_dir"}

\* C1: while a scope is open the captured snapshot keeps the parameter
\* values of the moment of entry, and when the scope exits every parameter
\* equals its value at entry.
C1_ScopeRestoresParameters ==
    [][/\ InScope' => SnapshotValues' = enter_params'
       /\ ScopeEnds => ParamValues(heap', param') = enter_params]_vars

\* C2: reset_state leaves every parameter equal to the weights the model was
\* constructed with, the log empty for both kinds, and the dirty flag false.
C2_ResetRestoresOriginal ==
    last.op = "reset_state" =>
        /\ ParamValues(heap, param) = InitialValues
        /\ LiveLog = EmptyLog
        /\ modified = FALSE

C2_Witness ==
    /\ last.op = "reset_state"
    /\ InScope
    /\ enter_params # InitialValues

\* C3: a weight-editing call changes neither matrix of a blacklisted layer,
\* adds nothing to the log of that layer, and changes the dirty flag only
\* when it raised or wrote a matrix of a layer that is not blacklisted.
C3_BlacklistedUntouched ==
    [][last'.op \in EditCalls =>
        /\ \A l \in _blacklisted, k \in Kinds :
              /\ heap'[param'[<<k, l>>]] = heap[param[<<k, l>>]]
              /\ LiveLog'[k][l] = LiveLog[k][l]
        /\ modified' # modified =>
              \/ last'.err
              \/ \E l \in Layers \ _blacklisted, k \in Kinds :
                     param'[<<k, l>>] # param[<<k, l>>]]_vars

C3_Witness ==
    /\ last.op \in {"layer_attn", "layer_mlp"}
    /\ ~last.err
    /\ _blacklisted = Layers

\* C4: when a scope exits, the log (both kinds) equals its contents at entry.
C4_ScopeRestoresLog ==
    [][ScopeEnds => LogContents(heap', dicts', modified_layers') = enter_log]_vars

\* C5: __enter__ on an object whose scope is open raises and changes
\* nothing (snapshot, parameters, log, dirty flag); on an object whose scope
\* is not open, as after __exit__, it succeeds and opens the scope.
C5_NoNesting ==
    [][/\ (last'.op = "__enter__" /\ InScope) =>
              /\ last'.err
              /\ current_state' = current_state
              /\ current_layers' = current_layers
              /\ was_modified' = was_modified
              /\ heap' = heap
              /\ param' = param
              /\ dicts' = dicts
              /\ modified_layers' = modified_layers
              /\ modified' = modified
       /\ (last'.op = "__enter__" /\ ~InScope) => (~last'.err /\ InScope')
       /\ last'.op = "__exit__" => ~InScope']_vars

C5_Witness ==
    /\ last.op = "__enter__"
    /\ last.err
    /\ modified

\* C6: no call shortens the checkpoint history or changes its order; only
\* checkpoint() lengthens it, by the one entry it puts at the end.
C6_HistoryAppendOnly ==
    [][/\ Len(checkpoints') >= Len(checkpoints)
       /\ SubSeq(checkpoints', 1, Len(checkpoints)) = checkpoints
       /\ IF last'.op = "checkpoint"
          THEN checkpoints' = Append(checkpoints, modified_layers)
          ELSE checkpoints' = checkpoints]_vars

C6_Witness ==
    /\ Len(checkpoints) = 2
    /\ last.op = "reset_state"

\* C7: the contents of every checkpoint entry stay what they were, whatever
\* is called afterwards.
C7_CheckpointsImmutable ==
    [][\A i \in 1 .. Len(checkpoints) :
          LogContents(heap', dicts', checkpoints'[i]) =
              LogContents(heap, dicts, checkpoints[i])]_vars

\* C8: test_dir, returning or raising, with hooks or with scoped surgery,
\* inside an open scope or not, leaves the parameter values, fwd_hooks and
\* the dirty flag as they were.
C8_TestDirLeavesNoTrace ==
    [][last'.op = "test_dir" =>
          /\ ParamValues(heap', param') = ParamValues(heap, param)
          /\ fwd_hooks' = fwd_hooks
          /\ modified' = modified]_vars

C8_Witness ==
    /\ last.op = "test_dir"
    /\ ~last.use_hooks
    /\ ~last.err
    /\ modified
    /\ _blacklisted = {}

\* the sequences of pass q, and whether one of them emitted a negative token
InPass(b, q) == \E j \in 1 .. Len(gen.passes[q]) : gen.passes[q][j] = b
NegativeEmitted(q) ==
    \E b \in 1 .. BatchSize : InPass(b, q) /\ gen.all_toks[b][q] \in gen.negative_toks

\* C9: with drop_refusals no forward pass follows a pass in which a
\* generating sequence emitted a negative token; without drop_refusals the
\* loop ends before max_tokens_generated passes only because stop_at_eos
\* left no sequence generating.
C9_BatchWideHalt ==
    /\ gen.drop_refusals =>
           \A q \in 1 .. (Len(gen.passes) - 1) : ~NegativeEmitted(q)
    /\ (~gen.drop_refusals /\ gen.pc = "done"
            /\ Len(gen.passes) < gen.max_tokens_generated) =>
           (gen.stop_at_eos /\ gen.generating = <<>>)

C9_Witness ==
    /\ gen.pc = "done"
    /\ gen.drop_refusals
    /\ Len(gen.passes) < gen.max_tokens_generated
    /\ NegativeEmitted(Len(gen.passes))
    /\ \E b \in 1 .. BatchSize : gen.all_toks[b][Len(gen.passes)] \notin gen.negative_toks

\* C10: with stop_at_eos a sequence is in a forward pass exactly when it has
\* not emitted the end marker in an earlier pass, and the loop does not go
\* on once every sequence has emitted it.
C10_FinishedSequencesExcluded ==
    gen.stop_at_eos =>
        /\ \A q \in 1 .. Len(gen.passes), b \in 1 .. BatchSize :
               InPass(b, q) <=>
                   ~\E s \in 1 .. (q - 1) : gen.all_toks[b][s] = gen.eos_token_id
        /\ gen.pc = "loop" =>
               \E b \in 1 .. BatchSize :
                   ~\E s \in 1 .. Len(gen.passes) : gen.all_toks[b][s] = gen.eos_token_id

\* C17: every successful write by layer_attn or layer_mlp appends to the log
\* list of the written layer and kind the pair (matrix stored immediately
\* before the write, matrix stored after it), so that k writes leave k pairs
\* in write order.
C17_LogAppendsOldNew ==
    [][(last'.op \in {"layer_attn", "layer_mlp"} /\ ~last'.err) =>
          \A k \in Kinds, l \in Layers :
              param'[<<k, l>>] # param[<<k, l>>] =>
                  LiveLog'[k][l] =
                      Append(LiveLog[k][l],
                             <<heap[param[<<k, l>>]], heap'[param'[<<k, l>>]]>>)]_vars

\* C15: measure_fn with a name outside {mean, median, max, stack} raises an
\* error whose message lists the four valid names; with one of the four it
\* raises nothing and returns that reducer's value of the input.
C15_UnknownMeasureRaises ==
    ret.pc = "done" =>
        LET t == ret.input_tensor
            r == ret.result
        IN IF ret.measure \in {"mean", "median", "max", "stack"}
           THEN /\ r.raised = ""
                /\ ret.measure = "mean" =>
                       (r.value.num = SeqSum(t) /\ r.value.den = Len(t))
                /\ ret.measure = "max" =>
                       /\ \E i \in 1 .. Len(t) : t[i] = r.value.num
                       /\ \A i \in 1 .. Len(t) : t[i] <= r.value.num
                /\ ret.measure = "median" =>
                       /\ \E i \in 1 .. Len(t) : t[i] = r.value.num
                       /\ 2 * Cardinality({i \in 1 .. Len(t) : t[i] < r.value.num}) < Len(t)
                       /\ 2 * Cardinality({i \in 1 .. Len(t) : t[i] <= r.value.num}) >= Len(t)
                /\ ret.measure = "stack" => r.value.vals = t
           ELSE /\ r.raised = "NotImplementedError"
                /\ r.unknown = ret.measure
                /\ {r.available[i] : i \in 1 .. Len(r.available)} =
                       {"mean", "median", "max", "stack"}

C15_Witness ==
    /\ ret.pc = "done"
    /\ ret.measure = "min"
    /\ ret.result.raised = "NotImplementedError"
    /\ Len(ret.input_tensor) = MaxTensorLen

\* the matrix m after the directions ds were projected out one after the other
AfterDirections(m, ds) ==
    LET RECURSIVE Fold(_)
        Fold(i) ==
            IF i = 0 THEN m
            ELSE [r \in 1 .. Len(m) |-> [c \in 1 .. d_model |->
                     Fold(i - 1)[r][c] - Dot(Fold(i - 1)[r], ds[i]) * ds[i][c]]]
    IN Fold(Len(ds))

\* the parameters a call of apply_refusal_dirs with arguments a is to edit
Selected(a, bl) ==
    {p \in Params :
        /\ (p[1] = "W_O" /\ a.W_O) \/ (p[1] = "mlp" /\ a.mlp)
        /\ \E i \in 1 .. Len(a.layers) : a.layers[i] = p[2]
        /\ p[2] \notin bl}

\* C18: a call of apply_refusal_dirs that returns leaves every matrix of a
\* selected kind and a target layer that is not blacklisted as the matrix
\* with the directions projected out in list order, each from the result of
\* the one before; every other parameter keeps its value, and so does a
\* matrix whose rows are orthogonal to all the directions.
C18_CumulativeProjection ==
    [][(last'.op = "apply_refusal_dirs" /\ ~last'.err) =>
          \A p \in Params :
              LET old == heap[param[p]]
                  new == heap'[param'[p]]
              IN /\ p \in Selected(ret', _blacklisted) =>
                        new = AfterDirections(old, ret'.refusal_dirs)
                 /\ p \notin Selected(ret', _blacklisted) => new = old
                 /\ (\A i \in 1 .. Len(ret'.refusal_dirs), r \in 1 .. Len(old) :
                        Dot(old[r], ret'.refusal_dirs[i]) = 0) => new = old]_vars

C18_Witness ==
    /\ last.op = "apply_refusal_dirs"
    /\ ~last.err
    /\ Len(ret.refusal_dirs) = 2
    /\ ret.refusal_dirs[1] # ret.refusal_dirs[2]
    /\ _blacklisted = {0}
    /\ heap[param[<<"W_O", 1>>]] = [r \in 1 .. n_rows |-> [c \in 1 .. d_model |-> 0]]
    /\ heap[param[<<"mlp", 1>>]] = InitialW_out[1]
    /\ heap[param[<<"W_O", 0>>]] = InitialW_O[0]

\* the directions of the sites of the layers after layer 0, as items
LiveDirs(invert) == DirsOfCache(Self, invert)
CachePopulated == DOMAIN harmful # {}

\* C11: with a populated cache scored_dirs returns, whatever the blacklist
\* holds, refusal directions paired with the layer of their site, ordered
\* by descending absolute mean component.
C11_ScoredDirsRanked ==
    (last.op = "scored_dirs" /\ CachePopulated) =>
        /\ ~last.err
        /\ \A i \in 1 .. Len(ret.value) :
               \E j \in 1 .. Len(LiveDirs(ret.args.invert)) :
                   /\ LiveDirs(ret.args.invert)[j][1][2] = ret.value[i][1]
                   /\ LiveDirs(ret.args.invert)[j][2] = ret.value[i][2]
        /\ \A i \in 1 .. Len(ret.value), j \in 1 .. Len(ret.value) :
               i < j => ~AbsMeanLess(ret.value[i][2], ret.value[j][2])

\* C12: with a populated cache find_best_refusal_dir, when no forward pass
\* fails, measures every direction of refusal_dirs once and returns the
\* (score, direction) pairs in ascending order of the score.
C12_FindBestSorted ==
    (last.op = "find_best_refusal_dir" /\ CachePopulated /\ ~ret.args.fails) =>
        /\ ~last.err
        /\ ret.passes = Len(LiveDirs(ret.args.invert))
        /\ Len(ret.value) = Len(LiveDirs(ret.args.invert))
        /\ \A j \in 1 .. Len(LiveDirs(ret.args.invert)) :
               \E i \in 1 .. Len(ret.value) :
                   ret.value[i][2] = LiveDirs(ret.args.invert)[j]
        /\ \A i \in 1 .. Len(ret.value), j \in 1 .. Len(ret.value) :
               i < j => ret.value[i][1] <= ret.value[j][1]

\* C13: without a harmful cache refusal_dirs, scored_dirs and
\* find_best_refusal_dir raise before any forward pass and leave the
\* parameters, the log, the forward hooks and the dirty flag as they were.
C13_NoCacheRaises ==
    [][(last'.op \in {"refusal_dirs", "scored_dirs", "find_best_refusal_dir"}
            /\ ~CachePopulated) =>
          /\ last'.err
          /\ ret'.passes = 0
          /\ heap' = heap
          /\ param' = param
          /\ dicts' = dicts
          /\ modified_layers' = modified_layers
          /\ fwd_hooks' = fwd_hooks
          /\ modified' = modified]_vars

C13_Witness ==
    /\ last.op = "find_best_refusal_dir"
    /\ last.err
    /\ harmful = EmptyCache
    /\ modified
    /\ LiveLog # EmptyLog

\* C16: every direction refusal_dirs returns has norm 1; where the harmful
\* and the harmless mean of a site are equal no direction is returned for
\* the zero difference.
C16_UnitNorm ==
    (last.op = "refusal_dirs" /\ ~last.err) =>
        \A i \in 1 .. Len(ret.value) :
            /\ ~IsNan(ret.value[i][2])
            /\ Dot(ret.value[i][2].vec, ret.value[i][2].vec) = ret.value[i][2].norm2

\* the rows a cache is to hold: one per prompt among the first N, in order
RowsOf(prompts, N, t) ==
    [key \in SiteKeys |->
        [i \in 1 .. Min(N, Len(prompts)) |-> Activation(t, prompts[i], key)]]

\* C19: cache_activations makes the harmful cache hold, per site, one row
\* for each of the first min(N, number of harmful prompts) harmful prompts
\* in prompt order, whatever batch_size is; the harmless cache is left as
\* it was when it was not empty and preserve_harmless is set, and otherwise
\* rebuilt the same way from the harmless prompts.
C19_CacheRows ==
    [][last'.op = "cache_activations" =>
          /\ harmful' = RowsOf(harmful_inst_train, ret'.args.N, ret'.args.t)
          /\ harmless' =
                 IF DOMAIN harmless # {} /\ ret'.args.preserve_harmless
                 THEN harmless
                 ELSE RowsOf(harmless_inst_train, ret'.args.N, ret'.args.t)]_vars

C19_Witness ==
    /\ last.op = "cache_activations"
    /\ ret.args.batch_size = 2
    /\ ret.args.N = 4
    /\ ret.args.preserve_harmless
    /\ Len(harmful[CacheKeyOrder[1]]) = 3
    /\ Len(harmless[CacheKeyOrder[1]]) = 1

\* the log and the checkpoint history the bundle was written from
SavedLog ==
    IF file.modified_layers = NoneValue THEN EmptyLog
    ELSE LogContents(heap, file.dicts, file.modified_layers)
SavedCheckpoints ==
    IF file.checkpoints.none THEN <<>>
    ELSE [i \in 1 .. Len(file.checkpoints.list) |->
             LogContents(heap, file.dicts, file.checkpoints.list[i])]

\* C14: an object constructed from a saved bundle holds the harmful cache,
\* the harmless cache, the log and the checkpoint history that were saved,
\* also when the log or the history was empty; and on it, as on a fresh
\* object, writes to existing layers, checkpoint() and save_activations do
\* not raise.
C14_BundleRoundTrip ==
    /\ (last.op = "__init__" /\ file # NoAttr) =>
           /\ harmful = file.harmful
           /\ harmless = file.harmless
           /\ modified_layers # NoneValue
           /\ LiveLog = SavedLog
           /\ [i \in 1 .. Len(checkpoints) |-> LogContents(heap, dicts, checkpoints[i])]
                  = SavedCheckpoints
    /\ last.op \in {"layer_attn", "layer_mlp", "checkpoint", "save_activations"} =>
           ~last.err

====
